---- MODULE Spec2Model ----
(***************************************************************************)
(* tui-measure: the pure layout functions of the repository.               *)
(*   calculateScrollState  (ScrollableList.tsx)  virtualized scroll window *)
(*   distributeSpace       (FlexRow.tsx)         integer flex distribution *)
(*   stripAnsi, displayLength, wrapText, truncateText, padText,            *)
(*   constrainText         (text.ts)             styled-text measurement   *)
(* Each function is an operator computed the way the code computes it; a   *)
(* specification draws the arguments of one call in Init and its single    *)
(* action performs the call and stores the returned value.                 *)
(***************************************************************************)
EXTENDS Integers, Sequences, FiniteSets, TLC

VARIABLES
    pc,           \* "call": arguments chosen, "done": the function has returned
    scrollArgs,   \* the arguments of one calculateScrollState call
    scrollState,  \* the ScrollState it returned
    flexArgs,     \* the arguments of one distributeSpace call
    widths,       \* the number[] it returned
    textArgs,     \* the arguments of one call of a function of text.ts
    textResult    \* the value it returned

vars == <<pc, scrollArgs, scrollState, flexArgs, widths, textArgs, textResult>>

----------------------------------------------------------------------------
(* Bounds of the checked input space.                                      *)

MaxLen == 4        \* items.length ranges over 0..MaxLen
MaxHeight == 2     \* itemHeight and getItemHeight(item) range over 1..MaxHeight
MaxAvail == 6      \* availableHeight ranges over 0..MaxAvail
MaxGap == 1        \* gap ranges up to MaxGap (rows between items, cells between columns)
MaxItems == 3      \* a row of plain flex items has 0..MaxItems items
MaxSiblings == 1   \* an item with min/max fields has 0..MaxSiblings siblings
MaxFlex == 2       \* flex weights range over 0..MaxFlex
MaxTotal == 6      \* total ranges up to MaxTotal
MaxPieces == 3     \* a text given to stripAnsi is the concatenation of 0..MaxPieces pieces
MaxTextLen == 4    \* a text given to truncateText has 0..MaxTextLen characters and escape sequences
MaxWidth == 3      \* width ranges over 0..MaxWidth
MaxChars == 4      \* a text given to constrainText has 0..MaxChars characters
MaxLines == 3      \* maxLines ranges over 0..MaxLines

----------------------------------------------------------------------------
(* JavaScript primitives used by the code.                                 *)

Max(a, b) == IF a >= b THEN a ELSE b
Min(a, b) == IF a <= b THEN a ELSE b

\* Math.floor(a / b) for a positive divisor b.
FloorDiv(a, b) == a \div b

\* arr[i] ?? d for a 0-based index i into the 1-based sequence arr: an index
\* outside the array reads undefined and takes the default.
At(arr, i, d) == IF i >= 0 /\ i < Len(arr) THEN arr[i + 1] ELSE d

\* Array.prototype.slice(start, end) on 0-based indices: a negative index
\* counts from the end of the array, and both ends are clamped to the array.
RelativeIndex(n, k) == IF k < 0 THEN Max(n + k, 0) ELSE Min(k, n)

Slice(arr, start, end) ==
    LET from == RelativeIndex(Len(arr), start)
        to == RelativeIndex(Len(arr), end)
    IN  [k \in 1..Max(to - from, 0) |-> arr[from + k]]

RECURSIVE SumSeq(_)
SumSeq(s) == IF s = <<>> THEN 0 ELSE Head(s) + SumSeq(Tail(s))

----------------------------------------------------------------------------
(* calculateScrollState                                                    *)

\* The caller's height callback: the tests read the height off the item.
GetItemHeight(item, index) == item.height

\* items.map((item, index) => ({ item, index }))
AllVisible(items) == [k \in 1..Len(items) |-> [item |-> items[k], index |-> k - 1]]

\* items.slice(from, to).map((item, i) => ({ item, index: from + i }))
VisibleSlice(items, from, to) ==
    LET part == Slice(items, from, to)
    IN  [k \in 1..Len(part) |-> [item |-> part[k], index |-> from + (k - 1)]]

EmptyScrollState ==
    [visible |-> <<>>, scrollOffset |-> 0, overflowTop |-> 0, overflowBottom |-> 0]

AllFitScrollState(items) ==
    [visible |-> AllVisible(items), scrollOffset |-> 0,
     overflowTop |-> 0, overflowBottom |-> 0]

\* Math.max(1, Math.floor((availableHeight - reserved) / effectiveItemHeight))
FixedMaxVisible(availableHeight, reserved, effectiveItemHeight) ==
    Max(1, FloorDiv(availableHeight - reserved, effectiveItemHeight))

\* Mutant of CenteredOffset: the selected item is put first in the window,
\* not in its middle.
SelectedFirstOffset(selectedIndex, maxVisible, length) ==
    Min(Max(0, selectedIndex), length - maxVisible)

\* Math.min(Math.max(0, selectedIndex - floor(maxVisible / 2)), length - maxVisible)
CenteredOffset(selectedIndex, maxVisible, length) ==
    Min(Max(0, selectedIndex - FloorDiv(maxVisible, 2)), length - maxVisible)

\* The fixed-height branch.
FixedHeightScrollState(items, selectedIndex, availableHeight, itemHeight, gap, hasOverflowIndicator) ==
    LET indicatorHeight == IF hasOverflowIndicator THEN 1 ELSE 0
        effectiveItemHeight == itemHeight + gap
        maxWithoutIndicators == FloorDiv(availableHeight, effectiveItemHeight)
        maxVisible1 == FixedMaxVisible(availableHeight, indicatorHeight * 2,
                                       effectiveItemHeight)
        scrollOffset1 == CenteredOffset(selectedIndex, maxVisible1, Len(items))
        willShowTop == scrollOffset1 > 0
        willShowBottom == scrollOffset1 + maxVisible1 < Len(items)
        actualIndicatorSpace ==
            (IF willShowTop THEN indicatorHeight ELSE 0)
            + (IF willShowBottom THEN indicatorHeight ELSE 0)
        maxVisible ==
            IF hasOverflowIndicator
            THEN FixedMaxVisible(availableHeight, actualIndicatorSpace,
                                 effectiveItemHeight)
            ELSE maxVisible1
        scrollOffset ==
            IF hasOverflowIndicator
            THEN CenteredOffset(selectedIndex, maxVisible, Len(items))
            ELSE scrollOffset1
    IN  IF Len(items) <= maxWithoutIndicators
        THEN AllFitScrollState(items)
        ELSE [visible |-> VisibleSlice(items, scrollOffset, scrollOffset + maxVisible),
              scrollOffset |-> scrollOffset,
              overflowTop |-> scrollOffset,
              overflowBottom |-> Max(0, Len(items) - scrollOffset - maxVisible)]

\* heights = items.map((item, i) => getItemHeight(item, i) + gap)
ItemHeights(items, gap) ==
    [k \in 1..Len(items) |-> GetItemHeight(items[k], k - 1) + gap]

\* for (i = 0; i < safeSelectedIndex; i++) heightBefore += heights[i] ?? 0
RECURSIVE HeightBefore(_, _)
HeightBefore(heights, safeSelectedIndex) ==
    IF safeSelectedIndex <= 0 THEN 0
    ELSE HeightBefore(heights, safeSelectedIndex - 1)
         + At(heights, safeSelectedIndex - 1, 0)

\* The scan for the first offset whose cumulative height reaches
\* targetScrollTop = heightBefore - (availableHeight - selectedHeight) / 2.
\* The division is a real division, so both sides of the comparison are
\* doubled: twiceTarget = 2 * heightBefore - (availableHeight - selectedHeight).
RECURSIVE ScanOffset(_, _, _, _)
ScanOffset(heights, twiceTarget, i, cumulativeHeight) ==
    IF i >= Len(heights) THEN i
    ELSE IF 2 * cumulativeHeight >= twiceTarget THEN i
    ELSE ScanOffset(heights, twiceTarget, i + 1, cumulativeHeight + At(heights, i, 0))

\* The forward grow loop: the endIndex reached from index i with usedHeight
\* rows already taken (endIndex is the value the loop leaves when it breaks).
RECURSIVE GrowForward(_, _, _, _, _, _)
GrowForward(heights, effectiveHeight, indicatorHeight, i, usedHeight, endIndex) ==
    IF i >= Len(heights) THEN endIndex
    ELSE LET itemH == At(heights, i, 1)
             needsBottomIndicator == i + 1 < Len(heights)
             reserveForBottom == IF needsBottomIndicator THEN indicatorHeight ELSE 0
         IN  IF usedHeight + itemH <= effectiveHeight - reserveForBottom
             THEN GrowForward(heights, effectiveHeight, indicatorHeight,
                              i + 1, usedHeight + itemH, i + 1)
             ELSE endIndex

\* usedHeight = 0; endIndex = scrollOffset;
\* effectiveHeight = availableHeight - (scrollOffset > 0 ? indicatorHeight : 0);
\* then the forward loop.
EndIndexFrom(heights, scrollOffset, availableHeight, indicatorHeight) ==
    GrowForward(heights,
                availableHeight - (IF scrollOffset > 0 THEN indicatorHeight ELSE 0),
                indicatorHeight, scrollOffset, 0, scrollOffset)

\* The backward grow loop from the selected item: the scrollOffset it leaves.
RECURSIVE GrowBackward(_, _, _, _, _)
GrowBackward(heights, effectiveHeight, i, usedHeight, scrollOffset) ==
    IF i < 0 THEN scrollOffset
    ELSE LET h == At(heights, i, 0)
         IN  IF usedHeight + h <= effectiveHeight
             THEN GrowBackward(heights, effectiveHeight, i - 1, usedHeight + h, i)
             ELSE scrollOffset

\* const safeSelectedIndex = Math.min(selectedIndex, items.length - 1)
SafeSelectedIndex(selectedIndex, length) == Min(selectedIndex, length - 1)

\* The all-fit test of the variable-height branch.
VariableAllFit(totalHeight, availableHeight) == totalHeight < availableHeight

calculateVariableHeightScrollState(items, selectedIndex, availableHeight, gap, indicatorHeight) ==
    LET heights == ItemHeights(items, gap)
        totalHeight == SumSeq(heights)
        safeSelectedIndex == SafeSelectedIndex(selectedIndex, Len(items))
        selectedHeight == At(heights, safeSelectedIndex, 1)
        heightBefore == HeightBefore(heights, safeSelectedIndex)
        twiceTarget == 2 * heightBefore - (availableHeight - selectedHeight)
        scrollOffset1 ==
            Max(0, Min(ScanOffset(heights, twiceTarget, 0, 0), Len(items) - 1))
        endIndex1 == EndIndexFrom(heights, scrollOffset1, availableHeight,
                                  indicatorHeight)
        hasBottom == safeSelectedIndex + 1 < Len(items)
        backHeight == availableHeight - indicatorHeight
                      - (IF hasBottom THEN indicatorHeight ELSE 0)
        scrollOffset ==
            IF safeSelectedIndex < scrollOffset1 THEN safeSelectedIndex
            ELSE IF safeSelectedIndex >= endIndex1
            THEN GrowBackward(heights, backHeight, safeSelectedIndex - 1,
                              At(heights, safeSelectedIndex, 1), safeSelectedIndex)
            ELSE scrollOffset1
        endIndex ==
            IF safeSelectedIndex < scrollOffset1 \/ safeSelectedIndex >= endIndex1
            THEN EndIndexFrom(heights, scrollOffset, availableHeight, indicatorHeight)
            ELSE endIndex1
    IN  IF VariableAllFit(totalHeight, availableHeight)
        THEN AllFitScrollState(items)
        ELSE [visible |-> VisibleSlice(items, scrollOffset, endIndex),
              scrollOffset |-> scrollOffset,
              overflowTop |-> scrollOffset,
              overflowBottom |-> Max(0, Len(items) - endIndex)]

\* a.getItemHeight is TRUE when the optional callback is supplied.
calculateScrollState(a) ==
    IF Len(a.items) = 0 THEN EmptyScrollState
    ELSE IF a.getItemHeight
    THEN calculateVariableHeightScrollState(
             a.items, a.selectedIndex, a.availableHeight, a.gap,
             IF a.hasOverflowIndicator THEN 1 ELSE 0)
    ELSE FixedHeightScrollState(a.items, a.selectedIndex, a.availableHeight,
                                a.itemHeight, a.gap, a.hasOverflowIndicator)

\* index.ts, calcScrollOffset:
\* Math.max(0, Math.min(selectedIndex - Math.floor(maxVisible / 2),
\*                      Math.max(0, totalCount - maxVisible)))
calcScrollOffset(selectedIndex, maxVisible, totalCount) ==
    Max(0, Min(selectedIndex - FloorDiv(maxVisible, 2), Max(0, totalCount - maxVisible)))

----------------------------------------------------------------------------
(* distributeSpace                                                         *)

\* An optional field of FlexItemConfig is the empty set when undefined and
\* the singleton of its value when set.
Undefined == {}
Some(v) == {v}
IsDefined(x) == x # {}
ValueOf(x) == CHOOSE v \in x : TRUE
\* x ?? d
OrElse(x, d) == IF IsDefined(x) THEN ValueOf(x) ELSE d

\* const gapTotal = Math.max(0, configs.length - 1) * gap
GapTotal(configs, gap) == Max(0, Len(configs) - 1) * gap

\* let available = Math.max(0, total - gapTotal)
InitialAvailable(total, configs, gap) == Max(0, total - GapTotal(configs, gap))

\* Pass 1, the widths written: widths[i] = config.width for a fixed item, the
\* initial 0 for a flex item.
FixedWidths(configs) ==
    [k \in 1..Len(configs) |->
        IF IsDefined(configs[k].width) THEN ValueOf(configs[k].width) ELSE 0]

\* Pass 1, available -= config.width over the fixed items.
RECURSIVE FixedSum(_)
FixedSum(configs) ==
    IF configs = <<>> THEN 0
    ELSE (IF IsDefined(Head(configs).width) THEN ValueOf(Head(configs).width) ELSE 0)
         + FixedSum(Tail(configs))

\* Pass 1, flexTotal += config.flex ?? 1 over the flex items.
RECURSIVE FlexTotal(_)
FlexTotal(configs) ==
    IF configs = <<>> THEN 0
    ELSE (IF IsDefined(Head(configs).width) THEN 0 ELSE OrElse(Head(configs).flex, 1))
         + FlexTotal(Tail(configs))

\* Mutant of AvailableAfterFixed: the fixed widths are not taken from
\* available.
AvailableIgnoringFixed(total, configs, gap) ==
    InitialAvailable(total, configs, gap)

\* available = Math.max(0, available) after the fixed widths are taken.
AvailableAfterFixed(total, configs, gap) ==
    Max(0, InitialAvailable(total, configs, gap) - FixedSum(configs))

\* Mutant of Share: the share rounded to the nearest cell, not floored.
ShareRounded(available, flex, flexTotal) ==
    FloorDiv(2 * available * flex + flexTotal, 2 * flexTotal)

\* const share = Math.floor((available * flex) / flexTotal)
Share(available, flex, flexTotal) == FloorDiv(available * flex, flexTotal)

\* Mutant of ShareWidths: the test config.width === undefined is missing, so a
\* fixed item is overwritten by a share too.
ShareWidthsUnguarded(configs, w, available, flexTotal) ==
    [k \in 1..Len(configs) |->
        FloorDiv(available * OrElse(configs[k].flex, 1), flexTotal)]

\* Pass 2, first loop: every flex item takes its floor share.
ShareWidths(configs, w, available, flexTotal) ==
    [k \in 1..Len(configs) |->
        IF IsDefined(configs[k].width) THEN w[k]
        ELSE Share(available, OrElse(configs[k].flex, 1), flexTotal)]

\* Mutant of DistributeRemainder: all the leftover cells go to the first flex
\* item.
RemainderToFirst(configs, w, i, remaining) ==
    LET flexItems == {k \in 1..Len(configs) : ~IsDefined(configs[k].width)}
    IN  IF flexItems = {} \/ remaining <= 0 THEN w
        ELSE [w EXCEPT ![CHOOSE k \in flexItems : \A j \in flexItems : k <= j] =
                            @ + remaining]

\* Mutant of DistributeRemainder: all the leftover cells go to the last flex
\* item.
RemainderToLast(configs, w, i, remaining) ==
    LET flexItems == {k \in 1..Len(configs) : ~IsDefined(configs[k].width)}
    IN  IF flexItems = {} \/ remaining <= 0 THEN w
        ELSE [w EXCEPT ![CHOOSE k \in flexItems : \A j \in flexItems : k >= j] =
                            @ + remaining]

\* Mutant of DistributeRemainder: the leftover cells are dropped.
RemainderDropped(configs, w, i, remaining) == w

\* Pass 2, second loop, from 0-based index i on:
\* for (; remaining > 0 && i < configs.length; i++)
\*     if (configs[i]?.width === undefined) { widths[i]++; remaining--; }
RECURSIVE DistributeRemainder(_, _, _, _)
DistributeRemainder(configs, w, i, remaining) ==
    IF ~(remaining > 0 /\ i < Len(configs)) THEN w
    ELSE IF IsDefined(configs[i + 1].width)
    THEN DistributeRemainder(configs, w, i + 1, remaining)
    ELSE DistributeRemainder(configs, [w EXCEPT ![i + 1] = @ + 1], i + 1, remaining - 1)

\* Pass 2 as a whole, guarded by flexTotal > 0 && available > 0.
FlexWidths(configs, w, available, flexTotal) ==
    IF flexTotal > 0 /\ available > 0
    THEN LET shares == ShareWidths(configs, w, available, flexTotal)
             remaining == available - (SumSeq(shares) - SumSeq(w))
         IN  DistributeRemainder(configs, shares, 0, remaining)
    ELSE w

\* Mutant of ApplyConstraints: squish is not read, the width is raised to
\* minWidth whenever it is below it.
ApplyConstraintsNoSquish(config, currentWidth) ==
    LET afterMin ==
            IF IsDefined(config.minWidth) /\ currentWidth < ValueOf(config.minWidth)
            THEN ValueOf(config.minWidth)
            ELSE currentWidth
    IN  IF IsDefined(config.maxWidth) /\ currentWidth > ValueOf(config.maxWidth)
        THEN ValueOf(config.maxWidth)
        ELSE afterMin

\* Pass 3 for one item: both tests read currentWidth, the width the item had
\* before pass 3, and the maxWidth assignment comes last.
ApplyConstraints(config, currentWidth) ==
    LET afterMin ==
            IF IsDefined(config.minWidth) /\ currentWidth < ValueOf(config.minWidth)
               /\ ~config.squish
            THEN ValueOf(config.minWidth)
            ELSE currentWidth
    IN  IF IsDefined(config.maxWidth) /\ currentWidth > ValueOf(config.maxWidth)
        THEN ValueOf(config.maxWidth)
        ELSE afterMin

\* Mutant of ConstrainedWidths: the cells a maxWidth cap frees are handed to
\* the last item of the row.
ConstrainedWidthsRedistributed(configs, w) ==
    LET clamped == [k \in 1..Len(configs) |-> ApplyConstraints(configs[k], w[k])]
        freed == Max(0, SumSeq(w) - SumSeq(clamped))
    IN  [clamped EXCEPT ![Len(configs)] = @ + freed]

\* Pass 3: every item is clamped by its own bounds.
ConstrainedWidths(configs, w) ==
    [k \in 1..Len(configs) |-> ApplyConstraints(configs[k], w[k])]

distributeSpace(a) ==
    IF Len(a.configs) = 0 THEN <<>>
    ELSE LET available == AvailableAfterFixed(a.total, a.configs, a.gap)
             flexTotal == FlexTotal(a.configs)
             pass1 == FixedWidths(a.configs)
             pass2 == FlexWidths(a.configs, pass1, available, flexTotal)
         IN  ConstrainedWidths(a.configs, pass2)

----------------------------------------------------------------------------
(* text.ts: strings.                                                       *)
(* A string is the sequence of its UTF-16 code units, each written as a    *)
(* TLA+ string; positions are 0-based as in the code.                      *)

ESC == "ESC"            \* \x1b
BSL == "\\"             \* the backslash
NL == "NL"              \* \n
SPACE == " "
WIDE == "U+4F60"        \* a CJK ideograph: one code unit, two cells
ELLIPSIS == "U+2026"    \* the horizontal ellipsis: one code unit, one cell

\* text[p]
CharAt(text, p) == text[p + 1]

\* text.slice(from, to) for 0 <= from <= to <= text.length
Substring(text, from, to) == [k \in 1..(to - from) |-> text[from + k]]

\* text.startsWith(prefix)
StartsWith(text, prefix) ==
    Len(text) >= Len(prefix) /\ Substring(text, 0, Len(prefix)) = prefix

\* parts.join("")
RECURSIVE Join(_)
Join(parts) == IF parts = <<>> THEN <<>> ELSE Head(parts) \o Join(Tail(parts))

\* The first position >= p whose code unit is not in class, or text.length.
RECURSIVE SkipClass(_, _, _)
SkipClass(text, p, class) ==
    IF p < Len(text) /\ CharAt(text, p) \in class
    THEN SkipClass(text, p + 1, class)
    ELSE p

\* The first position >= p that holds code unit c, or text.length.
RECURSIVE IndexOf(_, _, _)
IndexOf(text, p, c) ==
    IF p < Len(text) /\ CharAt(text, p) # c THEN IndexOf(text, p + 1, c) ELSE p

----------------------------------------------------------------------------
(* ANSI_REGEX = /\x1b\[[0-9;:]*m|\x1b\]8;;[^\x1b]*\x1b\\/g                  *)

\* [0-9;:] over the code units of the model
SgrParameterClass == {"0", "8", ";", ":"}

\* \x1b\[ and \x1b\]8;;
SgrIntroducer == <<ESC, "[">>
Osc8Introducer == <<ESC, "]", "8", ";", ";">>

\* "\x1b]8;;\x1b\\", the hyperlink-close sequence, and "\x1b[0m", the reset
HyperlinkClose == <<ESC, "]", "8", ";", ";", ESC, BSL>>
StyleReset == <<ESC, "[", "0", "m">>

\* \x1b\[[0-9;:]*m at position p: the end of the match, or -1. The class
\* does not hold m, so the greedy run must be followed by m.
SgrMatchEnd(text, p) ==
    IF StartsWith(Substring(text, p, Len(text)), SgrIntroducer)
    THEN LET q == SkipClass(text, p + 2, SgrParameterClass)
         IN  IF q < Len(text) /\ CharAt(text, q) = "m" THEN q + 1 ELSE -1
    ELSE -1

\* \x1b\]8;;[^\x1b]*\x1b\\ at position p: the end of the match, or -1. The
\* run [^\x1b]* stops at the first \x1b, which must be followed by \.
Osc8MatchEnd(text, p) ==
    IF StartsWith(Substring(text, p, Len(text)), Osc8Introducer)
    THEN LET q == IndexOf(text, p + 5, ESC)
         IN  IF q + 1 < Len(text) /\ CharAt(text, q + 1) = BSL THEN q + 2 ELSE -1
    ELSE -1

\* The alternation at position p.
AnsiMatchEnd(text, p) ==
    IF SgrMatchEnd(text, p) # -1 THEN SgrMatchEnd(text, p) ELSE Osc8MatchEnd(text, p)

\* The regex.exec loop from lastIndex p on: every match, left to right, as
\* { start, end, seq }.
RECURSIVE AnsiMatchesFrom(_, _)
AnsiMatchesFrom(text, p) ==
    IF p >= Len(text) THEN <<>>
    ELSE IF AnsiMatchEnd(text, p) # -1
    THEN <<[start |-> p, end |-> AnsiMatchEnd(text, p),
            seq |-> Substring(text, p, AnsiMatchEnd(text, p))]>>
         \o AnsiMatchesFrom(text, AnsiMatchEnd(text, p))
    ELSE AnsiMatchesFrom(text, p + 1)

AnsiMatches(text) == AnsiMatchesFrom(text, 0)

\* text.replace(ANSI_REGEX, "") from position p on: one pass, the matches
\* dropped and every other code unit kept.
RECURSIVE ReplaceAnsiFrom(_, _)
ReplaceAnsiFrom(text, p) ==
    IF p >= Len(text) THEN <<>>
    ELSE IF AnsiMatchEnd(text, p) # -1
    THEN ReplaceAnsiFrom(text, AnsiMatchEnd(text, p))
    ELSE <<CharAt(text, p)>> \o ReplaceAnsiFrom(text, p + 1)

stripAnsi(text) == ReplaceAnsiFrom(text, 0)

----------------------------------------------------------------------------
(* displayLength                                                           *)

\* The cells one code unit takes on the terminal: a CJK character counts 2,
\* a control character (\x1b, \n) counts 0, everything else counts 1.
CellWidth(c) == IF c = WIDE THEN 2 ELSE IF c \in {ESC, NL} THEN 0 ELSE 1

RECURSIVE CellSum(_)
CellSum(text) == IF text = <<>> THEN 0 ELSE CellWidth(Head(text)) + CellSum(Tail(text))

\* stringWidth(text): the ANSI escape codes are stripped and the cells of the
\* code units that are left are added up.
displayLength(text) == CellSum(ReplaceAnsiFrom(text, 0))

----------------------------------------------------------------------------
(* wrapText                                                                *)
(* wrapAnsi(text, width, { hard: true, trim: true }) is the wrap-ansi      *)
(* library: every input line is wrapped on its own, greedily word by word, *)
(* a word wider than the column limit is broken across rows, and every row *)
(* is trimmed. It is modelled for texts without escape sequences.          *)

\* text.split(sep) for a one-character separator
RECURSIVE Split(_, _)
Split(text, sep) ==
    LET q == IndexOf(text, 0, sep)
    IN  IF q >= Len(text) THEN <<text>>
        ELSE <<Substring(text, 0, q)>> \o Split(Substring(text, q + 1, Len(text)), sep)

\* parts.join(sep)
RECURSIVE JoinWith(_, _)
JoinWith(parts, sep) ==
    IF parts = <<>> THEN <<>>
    ELSE IF Len(parts) = 1 THEN Head(parts)
    ELSE Head(parts) \o <<sep>> \o JoinWith(Tail(parts), sep)

\* row.trimStart()
RECURSIVE TrimStart(_)
TrimStart(row) ==
    IF row # <<>> /\ Head(row) \in {SPACE, NL} THEN TrimStart(Tail(row)) ELSE row

\* The row without the spaces at its end.
RECURSIVE TrimSpacesRight(_)
TrimSpacesRight(row) ==
    IF row # <<>> /\ row[Len(row)] = SPACE
    THEN TrimSpacesRight(SubSeq(row, 1, Len(row) - 1))
    ELSE row

\* rows[rows.length - 1] += s
AppendToLast(rows, s) == [rows EXCEPT ![Len(rows)] = @ \o s]

\* A word wider than the column limit, from its character at index on: a
\* character goes on the last row while it fits and starts a new row when it
\* does not, and a row that is exactly full is closed at once.
RECURSIVE WrapWord(_, _, _, _, _)
WrapWord(rows, word, columns, index, visible) ==
    IF index >= Len(word) THEN rows
    ELSE LET character == CharAt(word, index)
             characterLength == CellWidth(character)
             fits == visible + characterLength <= columns
             rows1 == IF fits THEN AppendToLast(rows, <<character>>)
                      ELSE Append(rows, <<character>>)
             visible1 == (IF fits THEN visible ELSE 0) + characterLength
             full == visible1 = columns /\ index < Len(word) - 1
         IN  WrapWord(IF full THEN Append(rows1, <<>>) ELSE rows1, word, columns,
                      index + 1, IF full THEN 0 ELSE visible1)

\* One word of a line put on the rows.
PlaceWord(rows, word, columns, index) ==
    LET trimmed == [rows EXCEPT ![Len(rows)] = TrimStart(@)]
        rowLength0 == displayLength(trimmed[Len(trimmed)])
        spaced == IF index # 0 /\ rowLength0 > 0
                  THEN AppendToLast(trimmed, <<SPACE>>) ELSE trimmed
        rowLength == IF index # 0 /\ rowLength0 > 0 THEN rowLength0 + 1 ELSE rowLength0
        wordLength == displayLength(word)
        remainingColumns == columns - rowLength
        breaksStartingThisLine ==
            1 + FloorDiv(wordLength - remainingColumns - 1, columns)
        breaksStartingNextLine == FloorDiv(wordLength - 1, columns)
        opened == IF breaksStartingNextLine < breaksStartingThisLine
                  THEN Append(spaced, <<>>) ELSE spaced
    IN  IF wordLength > columns
        THEN WrapWord(opened, word, columns, 0, displayLength(opened[Len(opened)]))
        ELSE IF rowLength + wordLength > columns /\ rowLength > 0 /\ wordLength > 0
        THEN Append(spaced, word)
        ELSE AppendToLast(spaced, word)

RECURSIVE PlaceWords(_, _, _, _)
PlaceWords(rows, words, columns, index) ==
    IF index >= Len(words) THEN rows
    ELSE PlaceWords(PlaceWord(rows, words[index + 1], columns, index),
                    words, columns, index + 1)

\* One input line wrapped: its rows joined by "\n".
WrapLine(line, columns) ==
    IF TrimStart(line) = <<>> THEN <<>>
    ELSE LET rows == PlaceWords(<< <<>> >>, Split(line, SPACE), columns, 0)
         IN  JoinWith([k \in 1..Len(rows) |-> TrimSpacesRight(rows[k])], NL)

wrapAnsi(text, columns) ==
    LET lines == Split(text, NL)
    IN  JoinWith([k \in 1..Len(lines) |-> WrapLine(lines[k], columns)], NL)

\* Mutant of PopTrailingEmpty: only one trailing empty line is removed.
PopOneEmpty(lines) ==
    IF Len(lines) > 0 /\ lines[Len(lines)] = <<>>
    THEN SubSeq(lines, 1, Len(lines) - 1)
    ELSE lines

\* while (lines.length > 0 && lines[lines.length - 1] === "") lines.pop()
RECURSIVE PopTrailingEmpty(_)
PopTrailingEmpty(lines) ==
    IF Len(lines) > 0 /\ lines[Len(lines)] = <<>>
    THEN PopTrailingEmpty(SubSeq(lines, 1, Len(lines) - 1))
    ELSE lines

wrapText(text, width) ==
    IF text = <<>> THEN <<>>
    ELSE PopTrailingEmpty(Split(wrapAnsi(text, width), NL))

----------------------------------------------------------------------------
(* truncateText                                                            *)

\* The locals of the scan loop before its first iteration.
ScanStart ==
    [textPos |-> 0, displayCount |-> 0, ansiIdx |-> 0, resultParts |-> <<>>,
     inHyperlink |-> FALSE]

\* inHyperlink after the sequence seq has been copied: the first test is
\* seq.startsWith("\x1b]8;;") && seq.length > 6, and only when it fails is
\* seq compared with the hyperlink-close sequence.
HyperlinkAfter(seq, inHyperlink) ==
    IF StartsWith(seq, Osc8Introducer) /\ Len(seq) > 6 THEN TRUE
    ELSE IF seq = HyperlinkClose THEN FALSE
    ELSE inHyperlink

\* while (textPos < text.length && displayCount < targetWidth) { ... }
RECURSIVE ScanLoop(_, _, _, _)
ScanLoop(text, ansiMatches, targetWidth, st) ==
    IF ~(st.textPos < Len(text) /\ st.displayCount < targetWidth) THEN st
    ELSE IF st.ansiIdx < Len(ansiMatches)
            /\ st.textPos = ansiMatches[st.ansiIdx + 1].start
    THEN LET currentAnsi == ansiMatches[st.ansiIdx + 1]
         IN  ScanLoop(text, ansiMatches, targetWidth,
                      [textPos |-> currentAnsi.end,
                       displayCount |-> st.displayCount,
                       ansiIdx |-> st.ansiIdx + 1,
                       resultParts |-> Append(st.resultParts, currentAnsi.seq),
                       inHyperlink |-> HyperlinkAfter(currentAnsi.seq, st.inHyperlink)])
    ELSE ScanLoop(text, ansiMatches, targetWidth,
                  [textPos |-> st.textPos + 1,
                   displayCount |-> st.displayCount + 1,
                   ansiIdx |-> st.ansiIdx,
                   resultParts |-> Append(st.resultParts, <<CharAt(text, st.textPos)>>),
                   inHyperlink |-> st.inHyperlink])

\* Mutant of CloseIfOpen: the open hyperlink is never closed.
CloseNever(resultParts, inHyperlink) == resultParts

\* if (inHyperlink) resultParts.push("\x1b]8;;\x1b\\")
CloseIfOpen(resultParts, inHyperlink) ==
    IF inHyperlink THEN Append(resultParts, HyperlinkClose) ELSE resultParts

truncateText(text, width, ellipsis) ==
    IF displayLength(text) <= width THEN text
    ELSE LET ellipsisLen == displayLength(ellipsis)
             targetWidth == Max(0, width - ellipsisLen)
             end == ScanLoop(text, AnsiMatches(text), targetWidth, ScanStart)
         IN  Join(CloseIfOpen(end.resultParts, end.inHyperlink))
             \o StyleReset \o ellipsis

----------------------------------------------------------------------------
(* padText and constrainText                                               *)

\* " ".repeat(n)
Spaces(n) == [k \in 1..n |-> SPACE]

padText(text, width) ==
    LET currentLen == displayLength(text)
    IN  IF currentLen >= width THEN text ELSE text \o Spaces(width - currentLen)

\* The last kept line with the ellipsis attached, for a non-empty lastLine.
LastLineWithEllipsis(lastLine, width, ellipsis) ==
    LET ellipsisLen == displayLength(ellipsis)
        lastLineLen == displayLength(lastLine)
    IN  IF lastLineLen + ellipsisLen <= width
        THEN lastLine \o ellipsis
        ELSE truncateText(lastLine, width - ellipsisLen, <<>>) \o ellipsis

\* Mutant of KeptLines: the ellipsis is attached to every kept line.
KeptLinesAllMarked(allLines, width, maxLines, ellipsis) ==
    LET lines == Slice(allLines, 0, maxLines)
    IN  IF Len(allLines) > maxLines
        THEN [k \in 1..Len(lines) |-> lines[k] \o ellipsis]
        ELSE lines

\* lines = allLines.slice(0, maxLines), and when truncated the last of them,
\* unless it is the empty string, replaced by LastLineWithEllipsis.
KeptLines(allLines, width, maxLines, ellipsis) ==
    LET truncated == Len(allLines) > maxLines
        lines == Slice(allLines, 0, maxLines)
    IN  IF truncated /\ Len(lines) > 0 /\ lines[Len(lines)] # <<>>
        THEN [lines EXCEPT ![Len(lines)] = LastLineWithEllipsis(@, width, ellipsis)]
        ELSE lines

constrainText(text, width, maxLines, pad, ellipsis) ==
    LET allLines == wrapText(text, width)
        lines == KeptLines(allLines, width, maxLines, ellipsis)
    IN  [lines |-> IF pad THEN [k \in 1..Len(lines) |-> padText(lines[k], width)]
                   ELSE lines,
         truncated |-> Len(allLines) > maxLines]

----------------------------------------------------------------------------
(* The argument space of calculateScrollState.                             *)

\* Item k (0-based) of a list is named by its position and carries the height
\* the caller's callback reports for it.
MakeItems(hs) == [k \in 1..Len(hs) |-> [id |-> k - 1, height |-> hs[k]]]

ScrollArgs(items, selectedIndex, availableHeight, itemHeight, gap, hasOverflowIndicator, getItemHeight) ==
    [items |-> items, selectedIndex |-> selectedIndex,
     availableHeight |-> availableHeight, itemHeight |-> itemHeight, gap |-> gap,
     hasOverflowIndicator |-> hasOverflowIndicator, getItemHeight |-> getItemHeight]

\* A call without getItemHeight: every item is itemHeight rows high.
FixedCall(indices, available) ==
    \E n \in 0..MaxLen, ih \in 1..MaxHeight, s \in indices,
       ah \in available, g \in 0..MaxGap, ind \in BOOLEAN :
        scrollArgs = ScrollArgs(MakeItems([k \in 1..n |-> ih]), s, ah, ih, g, ind, FALSE)

\* A call with getItemHeight: itemHeight keeps its default, 1, and is not read.
VariableCall(indices, available) ==
    \E n \in 0..MaxLen, s \in indices, ah \in available,
       g \in 0..MaxGap, ind \in BOOLEAN :
        \E hs \in [1..n -> 1..MaxHeight] :
            scrollArgs = ScrollArgs(MakeItems(hs), s, ah, 1, g, ind, TRUE)

\* selectedIndex: an index of the longest list or the one past its end, or a
\* negative index, down to the one that counts back over the longest list
\* (items.slice(-2, -1) of a list of two items is not empty).
SelectableIndices == 0..(MaxLen + 1)
NegativeIndices == (-MaxLen)..(-1)

NoScrollArgs == ScrollArgs(<<>>, 0, 0, 1, 0, FALSE, FALSE)

NoFlexArgs == [total |-> 0, configs |-> <<>>, gap |-> 0]

NoTextArgs == [op |-> "none"]

NoTextResult == <<>>

InitScroll ==
    /\ pc = "call"
    /\ \/ FixedCall(SelectableIndices, 1..MaxAvail)
       \/ VariableCall(SelectableIndices, 1..MaxAvail)
       \/ FixedCall(SelectableIndices, {0})
       \/ VariableCall(SelectableIndices, {0})
       \/ FixedCall(NegativeIndices, 0..MaxAvail)
       \/ VariableCall(NegativeIndices, 0..MaxAvail)
    /\ scrollState = EmptyScrollState
    /\ flexArgs = NoFlexArgs
    /\ widths = <<>>
    /\ textArgs = NoTextArgs
    /\ textResult = NoTextResult

CalculateScrollState ==
    /\ pc = "call"
    /\ scrollState' = calculateScrollState(scrollArgs)
    /\ pc' = "done"
    /\ UNCHANGED <<scrollArgs, flexArgs, widths, textArgs, textResult>>

NextScroll == CalculateScrollState

SpecScroll == InitScroll /\ [][NextScroll]_vars

----------------------------------------------------------------------------
(* The argument space of distributeSpace.                                  *)

\* The values a set width, minWidth and maxWidth take: a fixed width of 2 lies
\* between the two minWidths and between the two maxWidths, and a minWidth is
\* below a maxWidth, equal to it or above it.
WidthChoices == {2}
MinWidthChoices == {1, 3}
MaxWidthChoices == {1, 4}

Optional(S) == {Undefined} \cup {Some(v) : v \in S}

Config(width, flex, minWidth, maxWidth, squish) ==
    [width |-> width, flex |-> flex, minWidth |-> minWidth, maxWidth |-> maxWidth,
     squish |-> squish]

\* {}, { flex: f } and { width: w }
PlainConfigs ==
    {Config(Undefined, f, Undefined, Undefined, FALSE) : f \in Optional(0..MaxFlex)}
    \cup {Config(Some(w), Undefined, Undefined, Undefined, FALSE) : w \in WidthChoices}

\* Every combination of the five fields.
AllConfigs ==
    {Config(w, f, mn, mx, sq) :
        w \in Optional(WidthChoices), f \in Optional(0..MaxFlex),
        mn \in Optional(MinWidthChoices), mx \in Optional(MaxWidthChoices),
        sq \in BOOLEAN}

\* A row of n items drawn from S, n in 0..maxLen.
Rows(S, maxLen) == UNION {[1..n -> S] : n \in 0..maxLen}

\* row with config c inserted so that p items come before it.
InsertAt(row, p, c) ==
    [k \in 1..(Len(row) + 1) |->
        IF k <= p THEN row[k] ELSE IF k = p + 1 THEN c ELSE row[k - 1]]

\* The example of the README: distributeSpace(80, [{width:10},{flex:2},{flex:1}], 1)
ReadmeCall ==
    [total |-> 80,
     configs |-> <<Config(Some(10), Undefined, Undefined, Undefined, FALSE),
                   Config(Undefined, Some(2), Undefined, Undefined, FALSE),
                   Config(Undefined, Some(1), Undefined, Undefined, FALSE)>>,
     gap |-> 1]

\* {}, { flex: MaxFlex } and { width: w }
SiblingConfigs ==
    {Config(Undefined, f, Undefined, Undefined, FALSE) : f \in {Undefined, Some(MaxFlex)}}
    \cup {Config(Some(w), Undefined, Undefined, Undefined, FALSE) : w \in WidthChoices}

\* Rows of plain items.
PlainCall(totals, gaps) ==
    \E row \in Rows(PlainConfigs, MaxItems), t \in totals, g \in gaps :
        flexArgs = [total |-> t, configs |-> row, gap |-> g]

\* The negative total and the negative gap.
NegativeTotals == {-1}
NegativeGaps == {-1}

\* One item with any combination of fields, anywhere among plain siblings.
ConstrainedCall ==
    \E t \in 0..MaxTotal, c \in AllConfigs, row \in Rows(SiblingConfigs, MaxSiblings),
       p \in 0..MaxSiblings, g \in 0..MaxGap :
        /\ p <= Len(row)
        /\ flexArgs = [total |-> t, configs |-> InsertAt(row, p, c), gap |-> g]

InitFlex ==
    /\ pc = "call"
    /\ \/ flexArgs = ReadmeCall
       \/ ConstrainedCall
       \/ PlainCall(0..MaxTotal, 0..MaxGap)
       \/ PlainCall(0..MaxTotal, NegativeGaps)
       \/ PlainCall(NegativeTotals, -1..MaxGap)
    /\ widths = <<>>
    /\ scrollArgs = NoScrollArgs
    /\ scrollState = EmptyScrollState
    /\ textArgs = NoTextArgs
    /\ textResult = NoTextResult

DistributeSpace ==
    /\ pc = "call"
    /\ widths' = distributeSpace(flexArgs)
    /\ pc' = "done"
    /\ UNCHANGED <<flexArgs, scrollArgs, scrollState, textArgs, textResult>>

NextFlex == DistributeSpace

SpecFlex == InitFlex /\ [][NextFlex]_vars

----------------------------------------------------------------------------
(* The argument space of stripAnsi.                                        *)

\* The concatenations of 0..maxLen pieces drawn from S.
Texts(S, maxLen) == {Join(ps) : ps \in UNION {[1..n -> S] : n \in 0..maxLen}}

\* Whole escape sequences, ordinary characters, and the fragments escape
\* sequences are made of: an introducer without its end, an end without its
\* introducer, a lone \x1b.
StripPieces ==
    {<<"a">>, <<WIDE>>, StyleReset, HyperlinkClose,
     Osc8Introducer \o <<"a">> \o <<ESC, BSL>>,
     SgrIntroducer, <<"m">>, <<"0">>, Osc8Introducer, <<ESC, BSL>>, <<ESC>>}

InitStrip ==
    /\ pc = "call"
    /\ \E t \in Texts(StripPieces, MaxPieces) : textArgs = [op |-> "stripAnsi", text |-> t]
    /\ textResult = NoTextResult
    /\ scrollArgs = NoScrollArgs
    /\ scrollState = EmptyScrollState
    /\ flexArgs = NoFlexArgs
    /\ widths = <<>>

StripAnsi ==
    /\ pc = "call"
    /\ textArgs.op = "stripAnsi"
    /\ textResult' = stripAnsi(textArgs.text)
    /\ pc' = "done"
    /\ UNCHANGED <<textArgs, scrollArgs, scrollState, flexArgs, widths>>

NextStrip == StripAnsi

SpecStrip == InitStrip /\ [][NextStrip]_vars

----------------------------------------------------------------------------
(* The argument space of truncateText.                                     *)

\* "\x1b]8;;a\x1b\\": the sequence that opens a hyperlink to "a"
HyperlinkOpen == Osc8Introducer \o <<"a">> \o <<ESC, BSL>>

\* A narrow and a wide character, a style sequence, and the two hyperlink
\* sequences.
TruncatePieces == {<<"a">>, <<WIDE>>, StyleReset, HyperlinkOpen, HyperlinkClose}

\* The default ellipsis, the empty ellipsis constrainText passes, and "..".
EllipsisChoices == {<<ELLIPSIS>>, <<>>, <<".", ".">>}

InitTruncate ==
    /\ pc = "call"
    /\ \E t \in Texts(TruncatePieces, MaxTextLen), w \in 0..MaxWidth, e \in EllipsisChoices :
        textArgs = [op |-> "truncateText", text |-> t, width |-> w, ellipsis |-> e]
    /\ textResult = NoTextResult
    /\ scrollArgs = NoScrollArgs
    /\ scrollState = EmptyScrollState
    /\ flexArgs = NoFlexArgs
    /\ widths = <<>>

TruncateText ==
    /\ pc = "call"
    /\ textArgs.op = "truncateText"
    /\ textResult' = truncateText(textArgs.text, textArgs.width, textArgs.ellipsis)
    /\ pc' = "done"
    /\ UNCHANGED <<textArgs, scrollArgs, scrollState, flexArgs, widths>>

NextTruncate == TruncateText

SpecTruncate == InitTruncate /\ [][NextTruncate]_vars

----------------------------------------------------------------------------
(* The argument space of wrapText and constrainText.                       *)

\* A narrow and a wide character, the space and the line break.
WrapPieces == {<<"a">>, <<WIDE>>, <<SPACE>>, <<NL>>}

\* The default ellipsis and "..".
ConstrainEllipses == {<<ELLIPSIS>>, <<".", ".">>}

\* The column limits: a limit holds at least one character of any width.
WrapWidths == 2..MaxWidth

\* wrapText alone is given texts of one more character.
WrapCall ==
    \E t \in Texts(WrapPieces, MaxChars + 1), w \in WrapWidths :
        textArgs = [op |-> "wrapText", text |-> t, width |-> w]

ConstrainCall ==
    \E t \in Texts(WrapPieces, MaxChars), w \in WrapWidths, n \in 0..MaxLines,
       pad \in BOOLEAN, e \in ConstrainEllipses :
        textArgs = [op |-> "constrainText", text |-> t, width |-> w, maxLines |-> n,
                    pad |-> pad, ellipsis |-> e]

InitConstrain ==
    /\ pc = "call"
    /\ (WrapCall \/ ConstrainCall)
    /\ textResult = NoTextResult
    /\ scrollArgs = NoScrollArgs
    /\ scrollState = EmptyScrollState
    /\ flexArgs = NoFlexArgs
    /\ widths = <<>>

WrapText ==
    /\ pc = "call"
    /\ textArgs.op = "wrapText"
    /\ textResult' = wrapText(textArgs.text, textArgs.width)
    /\ pc' = "done"
    /\ UNCHANGED <<textArgs, scrollArgs, scrollState, flexArgs, widths>>

ConstrainText ==
    /\ pc = "call"
    /\ textArgs.op = "constrainText"
    /\ textResult' = constrainText(textArgs.text, textArgs.width, textArgs.maxLines,
                                   textArgs.pad, textArgs.ellipsis)
    /\ pc' = "done"
    /\ UNCHANGED <<textArgs, scrollArgs, scrollState, flexArgs, widths>>

NextConstrain == WrapText \/ ConstrainText

SpecConstrain == InitConstrain /\ [][NextConstrain]_vars

----------------------------------------------------------------------------
(* Properties of calculateScrollState, checked under SpecScroll.           *)

VisibleIndices == {scrollState.visible[k].index : k \in 1..Len(scrollState.visible)}

\* The sum over all items of (item height + gap), as the call in scrollArgs
\* measures it: by the callback when it is supplied, by itemHeight otherwise.
TotalContentHeight ==
    IF scrollArgs.getItemHeight
    THEN SumSeq(ItemHeights(scrollArgs.items, scrollArgs.gap))
    ELSE Len(scrollArgs.items) * (scrollArgs.itemHeight + scrollArgs.gap)

\* C1: every result satisfies overflowTop + |visible| + overflowBottom = |items|,
\* for any selectedIndex, fixed or variable heights, with or without indicators.
C1_OverflowSum ==
    pc = "done" =>
        scrollState.overflowTop + Len(scrollState.visible) + scrollState.overflowBottom
            = Len(scrollArgs.items)

\* C2: for a non-empty list and 0 <= selectedIndex < |items|, the visible
\* window holds an entry whose index is selectedIndex, in every branch.
C2_SelectedVisible ==
    (pc = "done" /\ scrollArgs.selectedIndex >= 0
        /\ scrollArgs.selectedIndex < Len(scrollArgs.items))
    => scrollArgs.selectedIndex \in VisibleIndices

\* C3: whenever items is non-empty the result has at least one visible item,
\* even when availableHeight is smaller than one item's height.
C3_AtLeastOneVisible ==
    (pc = "done" /\ Len(scrollArgs.items) > 0) => Len(scrollState.visible) >= 1

\* C4: a selectedIndex outside [0, |items|) gives the same ScrollState as the
\* index clamped to 0 (below the range) or to |items| - 1 (above it).
C4_SelectedIndexClamped ==
    (pc = "done" /\ Len(scrollArgs.items) > 0)
    => scrollState =
         calculateScrollState(
           [scrollArgs EXCEPT !.selectedIndex =
               Max(0, Min(scrollArgs.selectedIndex, Len(scrollArgs.items) - 1))])

\* C5: scrollOffset is the index of the first visible entry when visible is
\* non-empty, and 0 when visible is empty.
C5_ScrollOffsetIsFirstVisible ==
    pc = "done" =>
        scrollState.scrollOffset =
            (IF Len(scrollState.visible) > 0 THEN scrollState.visible[1].index ELSE 0)

\* C6: when the total content height is at most availableHeight, every item is
\* visible with scrollOffset 0 and no overflow, whatever selectedIndex is, for
\* a fixed item height and for a height function.
C6_AllFit ==
    (pc = "done" /\ TotalContentHeight <= scrollArgs.availableHeight)
    => scrollState = AllFitScrollState(scrollArgs.items)

\* C22: in every result, visible is a contiguous ascending run taken from
\* items: for every position k, visible[k].index = visible[0].index + k,
\* 0 <= visible[k].index < |items|, and visible[k].item is
\* items[visible[k].index].
C22_VisibleIsContiguousRun ==
    pc = "done" =>
        \A k \in 1..Len(scrollState.visible) :
            LET index == scrollState.visible[k].index
            IN  /\ index = scrollState.visible[1].index + (k - 1)
                /\ 0 <= index
                /\ index < Len(scrollArgs.items)
                /\ scrollState.visible[k].item = scrollArgs.items[index + 1]

\* Every item of the call is itemHeight rows high: a height function that
\* returns itemHeight for every item reports the heights the call has without
\* one.
ConstantHeights ==
    \A k \in 1..Len(scrollArgs.items) :
        GetItemHeight(scrollArgs.items[k], k - 1) = scrollArgs.itemHeight

\* C26: the height function defaults to a constant per-item height: when
\* every item is itemHeight rows high, the call with the height function and
\* the call without it return the same ScrollWindow.
C26_ConstantHeightFunction ==
    (pc = "done" /\ ConstantHeights)
    => scrollState = calculateScrollState([scrollArgs EXCEPT !.getItemHeight = ~@])

\* The height of item k (1-based) of the call, as the call measures it.
HeightOfItem(k) ==
    IF scrollArgs.getItemHeight
    THEN GetItemHeight(scrollArgs.items[k], k - 1)
    ELSE scrollArgs.itemHeight

\* The rows the returned window occupies: height + gap for every visible
\* entry, and with hasOverflowIndicator one row for overflowTop > 0 and one
\* for overflowBottom > 0.
OccupiedRows ==
    SumSeq([k \in 1..Len(scrollState.visible) |->
                scrollState.visible[k].item.height + scrollArgs.gap])
    + (IF scrollArgs.hasOverflowIndicator /\ scrollState.overflowTop > 0 THEN 1 ELSE 0)
    + (IF scrollArgs.hasOverflowIndicator /\ scrollState.overflowBottom > 0 THEN 1 ELSE 0)

\* availableHeight >= (tallest item height + gap) + 2, and every item height
\* is >= 1.
RoomForTallestAndIndicators ==
    /\ Len(scrollArgs.items) > 0
    /\ \A k \in 1..Len(scrollArgs.items) :
        /\ HeightOfItem(k) >= 1
        /\ scrollArgs.availableHeight >= HeightOfItem(k) + scrollArgs.gap + 2

\* C27: whenever every item height is >= 1 and availableHeight >= (tallest
\* item height + gap) + 2, the rows occupied by the returned window, the
\* rows of the indicators shown included, are <= availableHeight, in the
\* fixed-height computation and in the variable-height computation.
C27_WindowFitsWithIndicators ==
    (pc = "done" /\ RoomForTallestAndIndicators)
    => OccupiedRows <= scrollArgs.availableHeight

\* C29: in fixed-height mode, for every non-empty list and every
\* selectedIndex, scrollOffset = calcScrollOffset(selectedIndex, |visible|,
\* |items|), and that value lies in [0, |items| - |visible|].
C29_AgreesWithCalcScrollOffset ==
    (pc = "done" /\ ~scrollArgs.getItemHeight /\ Len(scrollArgs.items) > 0) =>
        /\ scrollState.scrollOffset =
            calcScrollOffset(scrollArgs.selectedIndex, Len(scrollState.visible),
                             Len(scrollArgs.items))
        /\ 0 <= scrollState.scrollOffset
        /\ scrollState.scrollOffset <= Len(scrollArgs.items) - Len(scrollState.visible)

\* A fixed-height call with indicators whose window has items scrolled off
\* above it and below it, around a selected item that is in the list.
C29_Witness ==
    /\ pc = "done" /\ ~scrollArgs.getItemHeight /\ scrollArgs.hasOverflowIndicator
    /\ scrollArgs.selectedIndex >= 0
    /\ scrollArgs.selectedIndex < Len(scrollArgs.items)
    /\ Len(scrollState.visible) >= 2
    /\ scrollState.overflowTop > 0 /\ scrollState.overflowBottom > 0

----------------------------------------------------------------------------
(* Properties of distributeSpace, checked under SpecFlex.                  *)

NumConfigs == Len(flexArgs.configs)

\* gap x (|items| - 1), as the claims write it.
GapCells == flexArgs.gap * (NumConfigs - 1)

\* No item has a width, a minWidth or a maxWidth: the row is flex-only.
FlexOnlyRow ==
    \A k \in 1..NumConfigs :
        /\ ~IsDefined(flexArgs.configs[k].width)
        /\ ~IsDefined(flexArgs.configs[k].minWidth)
        /\ ~IsDefined(flexArgs.configs[k].maxWidth)

\* C7, as stated: for a flex-only row,
\* sum(result) + gap x (|items| - 1) = max(0, total) whenever
\* total >= gap x (|items| - 1).
C7_FlexOnlySumOriginal ==
    (pc = "done" /\ FlexOnlyRow /\ flexArgs.total >= GapCells)
    => SumSeq(widths) + GapCells = Max(0, flexArgs.total)

\* C7, amended: the same equation for a flex-only row in which some flex
\* weight is positive and total >= 0.
C7_FlexOnlySum ==
    (pc = "done" /\ FlexOnlyRow /\ FlexTotal(flexArgs.configs) > 0
        /\ flexArgs.total >= 0 /\ flexArgs.total >= GapCells)
    => SumSeq(widths) + GapCells = Max(0, flexArgs.total)

\* A flex-only row of three items with a positive gap whose floor shares leave
\* cells over, so that the remainder loop has handed cells out.
C7_Witness ==
    /\ pc = "done" /\ FlexOnlyRow /\ NumConfigs = 3 /\ flexArgs.gap > 0
    /\ FlexTotal(flexArgs.configs) > 0
    /\ flexArgs.total > GapCells
    /\ widths # ShareWidths(flexArgs.configs, FixedWidths(flexArgs.configs),
                            flexArgs.total - GapCells, FlexTotal(flexArgs.configs))

\* C8, as stated: an item whose width is set gets exactly that width,
\* whatever its flex, minWidth, maxWidth and squish are.
C8_FixedWinsOriginal ==
    pc = "done" =>
        \A k \in 1..NumConfigs :
            IsDefined(flexArgs.configs[k].width)
            => widths[k] = ValueOf(flexArgs.configs[k].width)

\* C8, amended: an item whose width is set gets that width whatever its flex
\* is, changed only by its own bounds: maxWidth when width > maxWidth,
\* otherwise minWidth when width < minWidth and squish is not set, otherwise
\* exactly width.
C8_FixedWinsOverFlex ==
    pc = "done" =>
        \A k \in 1..NumConfigs :
            LET c == flexArgs.configs[k]
                w == ValueOf(c.width)
            IN  IsDefined(c.width) =>
                    widths[k] =
                        (IF IsDefined(c.maxWidth) /\ w > ValueOf(c.maxWidth)
                         THEN ValueOf(c.maxWidth)
                         ELSE IF IsDefined(c.minWidth) /\ w < ValueOf(c.minWidth)
                                 /\ ~c.squish
                         THEN ValueOf(c.minWidth)
                         ELSE w)

\* An item with both width and flex set kept its width while a flex sibling
\* took a share of the space that was left.
C8_Witness ==
    /\ pc = "done"
    /\ \E k, j \in 1..NumConfigs :
        /\ IsDefined(flexArgs.configs[k].width) /\ IsDefined(flexArgs.configs[k].flex)
        /\ ValueOf(flexArgs.configs[k].flex) > 0
        /\ widths[k] = ValueOf(flexArgs.configs[k].width)
        /\ ~IsDefined(flexArgs.configs[j].width) /\ widths[j] > 0

\* C9: maxWidth is an unconditional cap: an item with maxWidth set never gets
\* more than maxWidth, whatever its minWidth and squish are.
C9_MaxWidthCaps ==
    pc = "done" =>
        \A k \in 1..NumConfigs :
            IsDefined(flexArgs.configs[k].maxWidth)
            => widths[k] <= ValueOf(flexArgs.configs[k].maxWidth)

C11_NegativeGapAsZero ==
    (pc = "done" /\ flexArgs.gap < 0)
    => widths = distributeSpace([flexArgs EXCEPT !.gap = 0])

\* The widths after pass 2 of the call in flexArgs: the fixed widths and the
\* shares, before minWidth and maxWidth are applied.
SharesOfCall ==
    FlexWidths(flexArgs.configs, FixedWidths(flexArgs.configs),
               AvailableAfterFixed(flexArgs.total, flexArgs.configs, flexArgs.gap),
               FlexTotal(flexArgs.configs))

\* C20, as stated: for a flex item with minWidth set, without squish the
\* returned width is >= minWidth, and with squish the computed share is
\* returned unchanged.
C20_MinWidthOriginal ==
    pc = "done" =>
        \A k \in 1..NumConfigs :
            LET c == flexArgs.configs[k]
            IN  (~IsDefined(c.width) /\ IsDefined(c.minWidth)) =>
                    IF c.squish THEN widths[k] = SharesOfCall[k]
                    ELSE widths[k] >= ValueOf(c.minWidth)

\* C20, amended: the same unless the item's share is above its maxWidth, in
\* which case maxWidth is returned: otherwise without squish the width is the
\* share raised to minWidth when it is smaller, and with squish it is the
\* share unchanged, also below minWidth.
C20_MinWidth ==
    pc = "done" =>
        \A k \in 1..NumConfigs :
            LET c == flexArgs.configs[k]
                share == SharesOfCall[k]
            IN  (~IsDefined(c.width) /\ IsDefined(c.minWidth)) =>
                    IF IsDefined(c.maxWidth) /\ share > ValueOf(c.maxWidth)
                    THEN widths[k] = ValueOf(c.maxWidth)
                    ELSE IF c.squish THEN widths[k] = share
                    ELSE /\ widths[k] >= ValueOf(c.minWidth)
                         /\ widths[k] = Max(share, ValueOf(c.minWidth))

\* A flex item without squish whose share was below its minWidth, beside a
\* flex sibling that took a share: the item was raised to minWidth and the
\* row is wider than total.
C20_Witness ==
    /\ pc = "done"
    /\ \E k, j \in 1..NumConfigs :
        /\ ~IsDefined(flexArgs.configs[k].width) /\ ~flexArgs.configs[k].squish
        /\ IsDefined(flexArgs.configs[k].minWidth)
        /\ SharesOfCall[k] > 0
        /\ SharesOfCall[k] < ValueOf(flexArgs.configs[k].minWidth)
        /\ widths[k] = ValueOf(flexArgs.configs[k].minWidth)
        /\ j # k /\ ~IsDefined(flexArgs.configs[j].width) /\ widths[j] > 0
        /\ SumSeq(widths) + GapCells > flexArgs.total

\* The call leaves nothing for the flex items:
\* total - gap x (|items| - 1) - (sum of fixed widths) <= 0 with gap >= 0 (the
\* fixed widths of the argument space are positive).
NothingForFlex ==
    /\ pc = "done" /\ NumConfigs > 0 /\ flexArgs.gap >= 0
    /\ flexArgs.total - GapCells - FixedSum(flexArgs.configs) <= 0

\* C21, as stated: when nothing is left for the flex items, every flex item
\* without minWidth gets width exactly 0 and every fixed item keeps its width.
C21_NothingLeftOriginal ==
    NothingForFlex =>
        \A k \in 1..NumConfigs :
            LET c == flexArgs.configs[k]
            IN  /\ (~IsDefined(c.width) /\ ~IsDefined(c.minWidth)) => widths[k] = 0
                /\ IsDefined(c.width) => widths[k] = ValueOf(c.width)

\* C21, amended: when nothing is left for the flex items, every flex item
\* without minWidth gets width exactly 0, and every fixed item keeps its width
\* unless its own bounds change it: maxWidth when width > maxWidth, otherwise
\* minWidth when width < minWidth and squish is not set.
C21_NothingLeft ==
    NothingForFlex =>
        \A k \in 1..NumConfigs :
            LET c == flexArgs.configs[k]
                w == ValueOf(c.width)
            IN  /\ (~IsDefined(c.width) /\ ~IsDefined(c.minWidth)) => widths[k] = 0
                /\ IsDefined(c.width) =>
                    widths[k] =
                        (IF IsDefined(c.maxWidth) /\ w > ValueOf(c.maxWidth)
                         THEN ValueOf(c.maxWidth)
                         ELSE IF IsDefined(c.minWidth) /\ w < ValueOf(c.minWidth)
                                 /\ ~c.squish
                         THEN ValueOf(c.minWidth)
                         ELSE w)

\* An over-committed fixed budget: a fixed item took all of a positive total
\* and kept its width, and the flex item beside it was left with 0.
C21_Witness ==
    /\ NothingForFlex /\ flexArgs.total > 0
    /\ \E k, j \in 1..NumConfigs :
        /\ IsDefined(flexArgs.configs[k].width)
        /\ widths[k] = ValueOf(flexArgs.configs[k].width)
        /\ ~IsDefined(flexArgs.configs[j].width)
        /\ ~IsDefined(flexArgs.configs[j].minWidth)
        /\ OrElse(flexArgs.configs[j].flex, 1) > 0
        /\ widths[j] = 0

\* Item k of the call is a flex item without minWidth and maxWidth: pass 3
\* leaves it the width pass 2 gave it.
UnboundedFlexItem(k) ==
    /\ ~IsDefined(flexArgs.configs[k].width)
    /\ ~IsDefined(flexArgs.configs[k].minWidth)
    /\ ~IsDefined(flexArgs.configs[k].maxWidth)

\* floor(available x weight / flexTotal) for item k of the call.
FloorShare(k) ==
    FloorDiv(AvailableAfterFixed(flexArgs.total, flexArgs.configs, flexArgs.gap)
                * OrElse(flexArgs.configs[k].flex, 1),
             FlexTotal(flexArgs.configs))

\* Every flex item of the call is unbounded and all have the same positive
\* weight.
EqualPositiveWeights ==
    \A k \in 1..NumConfigs :
        ~IsDefined(flexArgs.configs[k].width) =>
            /\ UnboundedFlexItem(k)
            /\ OrElse(flexArgs.configs[k].flex, 1) > 0
            /\ \A j \in 1..NumConfigs :
                ~IsDefined(flexArgs.configs[j].width) =>
                    OrElse(flexArgs.configs[j].flex, 1) = OrElse(flexArgs.configs[k].flex, 1)

WithBounds(k, minWidth, maxWidth, squish) ==
    [flexArgs EXCEPT !.configs[k] =
        [@ EXCEPT !.minWidth = minWidth, !.maxWidth = maxWidth, !.squish = squish]]

\* The bounds an item is given instead of its own: none, the largest minWidth
\* without squish, the smallest maxWidth. The item's own bounds range over
\* every combination in the argument space, so any two combinations are
\* compared through the call without bounds.
BoundsChanges ==
    {<<Undefined, Undefined, FALSE>>,
     <<Some(CHOOSE mn \in MinWidthChoices : \A m \in MinWidthChoices : mn >= m),
       Undefined, FALSE>>,
     <<Undefined,
       Some(CHOOSE mx \in MaxWidthChoices : \A m \in MaxWidthChoices : mx <= m),
       FALSE>>}

\* C25: pass 3 clamps each item on its own: when one item of the call is
\* given other minWidth, maxWidth and squish than its own, the width returned
\* for every other item is the one the call returned (the cells a maxWidth
\* cap frees are not handed to the siblings, the cells a minWidth floor adds
\* are not taken from them).
C25_BoundsAreLocal ==
    pc = "done" =>
        \A k \in 1..NumConfigs :
            \A b \in BoundsChanges :
                \A j \in 1..NumConfigs :
                    j # k => distributeSpace(WithBounds(k, b[1], b[2], b[3]))[j] = widths[j]

\* An item capped by its maxWidth below its share, followed by a flex sibling
\* that took a share: the row is narrower than total, the freed cells went to
\* nobody.
C25_Witness ==
    /\ pc = "done" /\ NumConfigs = 2
    /\ IsDefined(flexArgs.configs[1].maxWidth)
    /\ SharesOfCall[1] > ValueOf(flexArgs.configs[1].maxWidth)
    /\ widths[1] = ValueOf(flexArgs.configs[1].maxWidth)
    /\ ~IsDefined(flexArgs.configs[2].width) /\ widths[2] > 0
    /\ SumSeq(widths) + GapCells < flexArgs.total

\* The widths distributeSpace returns for the items and gap of the call when
\* the row is one cell longer.
WidthsOfLongerRow == distributeSpace([flexArgs EXCEPT !.total = @ + 1])

\* All the items of the call have the same flex weight.
EqualWeights ==
    \A k, j \in 1..NumConfigs :
        OrElse(flexArgs.configs[k].flex, 1) = OrElse(flexArgs.configs[j].flex, 1)

\* C28, as stated: growing the row never shrinks a column: for a flex-only
\* row, distributeSpace(total + 1, items, gap)[i] >=
\* distributeSpace(total, items, gap)[i] for every item i.
C28_GrowingNeverShrinksOriginal ==
    (pc = "done" /\ FlexOnlyRow) =>
        \A i \in 1..NumConfigs : WidthsOfLongerRow[i] >= widths[i]

\* C28, amended: growing the row by a cell shrinks a column by at most one
\* cell, the leftover cell it had, and shrinks no column when all the weights
\* are equal.
C28_GrowingShrinksByAtMostOne ==
    (pc = "done" /\ FlexOnlyRow) =>
        \A i \in 1..NumConfigs :
            /\ WidthsOfLongerRow[i] >= widths[i] - 1
            /\ EqualWeights => WidthsOfLongerRow[i] >= widths[i]

\* A row with gap 0 and a positive total in which one column has a leftover
\* cell that it loses when the row is one cell longer, while the columns
\* beside it grow.
C28_Witness ==
    /\ pc = "done" /\ FlexOnlyRow /\ NumConfigs = 3
    /\ flexArgs.gap = 0 /\ flexArgs.total > 0
    /\ WidthsOfLongerRow[2] = widths[2] - 1
    /\ WidthsOfLongerRow[1] > widths[1]
    /\ WidthsOfLongerRow[3] > widths[3]

----------------------------------------------------------------------------
(* Properties of stripAnsi and displayLength, checked under SpecStrip.     *)

\* C12: stripAnsi is idempotent: stripping the string stripAnsi returned,
\* nested and malformed escape fragments included, changes nothing.
C12_StripIdempotent ==
    pc = "done" => stripAnsi(textResult) = textResult

\* C13: escape sequences contribute 0 width: the string stripAnsi returned has
\* the display width of the string it was given.
C13_StripKeepsWidth ==
    pc = "done" => displayLength(textResult) = displayLength(textArgs.text)

----------------------------------------------------------------------------
(* Properties of truncateText, checked under SpecTruncate.                 *)

\* text.endsWith(suffix)
EndsWith(text, suffix) ==
    Len(text) >= Len(suffix)
    /\ Substring(text, Len(text) - Len(suffix), Len(text)) = suffix

\* The call has returned and its text was wider than width, so that the
\* text was cut.
Truncates ==
    /\ pc = "done" /\ textArgs.op = "truncateText"
    /\ displayLength(textArgs.text) > textArgs.width

\* C14: when the text is wider than width and the ellipsis fits in width, the
\* result is at most width cells wide and ends with the ellipsis, and what
\* comes before the ellipsis takes at most width - width(ellipsis) cells, a
\* wide character counting 2 and an escape sequence 0.
C14_TruncateFits ==
    (Truncates /\ displayLength(textArgs.ellipsis) <= textArgs.width)
    => /\ displayLength(textResult) <= textArgs.width
       /\ EndsWith(textResult, textArgs.ellipsis)
       /\ displayLength(Substring(textResult, 0,
                                  Len(textResult) - Len(textArgs.ellipsis)))
              <= textArgs.width - displayLength(textArgs.ellipsis)

\* The hyperlink state at the end of body: open after a sequence
\* "\x1b]8;;<payload>\x1b\\" with a payload, closed after "\x1b]8;;\x1b\\"
\* and at the start; a style sequence leaves it as it is.
RECURSIVE HyperlinkOpenAfter(_, _)
HyperlinkOpenAfter(matches, open) ==
    IF matches = <<>> THEN open
    ELSE HyperlinkOpenAfter(Tail(matches),
            IF Head(matches).seq = HyperlinkClose THEN FALSE
            ELSE IF StartsWith(Head(matches).seq, Osc8Introducer) THEN TRUE
            ELSE open)

LeavesHyperlinkOpen(body) == HyperlinkOpenAfter(AnsiMatches(body), FALSE)

\* C15: truncateText never leaks an open hyperlink: when it cuts the text the
\* result is the copied body, a prefix of the text, followed by the style
\* reset and the ellipsis, and whenever the body leaves a hyperlink open the
\* hyperlink-close sequence stands between the body and the style reset.
C15_HyperlinkClosed ==
    Truncates =>
        \E p \in 0..Len(textArgs.text) :
            LET body == Substring(textArgs.text, 0, p)
            IN  \/ textResult = body \o HyperlinkClose \o StyleReset \o textArgs.ellipsis
                \/ /\ textResult = body \o StyleReset \o textArgs.ellipsis
                   /\ ~LeavesHyperlinkOpen(body)

\* The text was cut after a character that follows a hyperlink-open sequence
\* and before the link was closed, and the close sequence was put in.
C15_Witness ==
    /\ Truncates
    /\ \E p \in 1..Len(textArgs.text) :
        LET body == Substring(textArgs.text, 0, p)
        IN  /\ LeavesHyperlinkOpen(body)
            /\ CharAt(textArgs.text, p - 1) = "a"
            /\ textResult = body \o HyperlinkClose \o StyleReset \o textArgs.ellipsis

\* The state in which the scan of the call in textArgs ends.
ScanEnd ==
    ScanLoop(textArgs.text, AnsiMatches(textArgs.text),
             Max(0, textArgs.width - displayLength(textArgs.ellipsis)), ScanStart)

\* C23: the hyperlink flag of the scan is a two-state machine: closed at the
\* start, open after an OSC-8 sequence with a target is copied, closed after
\* the closing sequence is copied. So when the text is cut the flag at the
\* end of the scan is open exactly when the last OSC-8 sequence copied was an
\* opening one, and the extra close sequence is appended only in that case.
C23_HyperlinkFlagTwoStates ==
    Truncates =>
        LET copied == Substring(textArgs.text, 0, ScanEnd.textPos)
        IN  /\ ScanEnd.inHyperlink = LeavesHyperlinkOpen(copied)
            /\ textResult =
                copied \o (IF LeavesHyperlinkOpen(copied) THEN HyperlinkClose ELSE <<>>)
                       \o StyleReset \o textArgs.ellipsis

----------------------------------------------------------------------------
(* Properties of wrapText and constrainText, checked under SpecConstrain.  *)

\* A constrainText call has returned.
Constrained == pc = "done" /\ textArgs.op = "constrainText"

\* The lines wrapText gives for the text and width of the call.
WrappedLines == wrapText(textArgs.text, textArgs.width)

\* The last returned line before padding: padText only puts spaces after it.
LastLineUnpadded ==
    LET last == textResult.lines[Len(textResult.lines)]
    IN  IF textArgs.pad THEN TrimSpacesRight(last) ELSE last

\* C16: whenever constrainText reports truncated and maxLines >= 1, the last
\* returned line, before padding, ends with the ellipsis, whatever the last
\* kept line holds, a blank paragraph-break line included.
C16_LastLineEndsWithEllipsis ==
    (Constrained /\ textResult.truncated /\ textArgs.maxLines >= 1)
    => EndsWith(LastLineUnpadded, textArgs.ellipsis)

\* C17: when constrainText truncates and the ellipsis fits in width, the
\* final returned line, ellipsis included, is at most width cells wide, for
\* narrow and for wide characters.
C17_LastLineFits ==
    (Constrained /\ textResult.truncated /\ Len(textResult.lines) > 0
        /\ displayLength(textArgs.ellipsis) <= textArgs.width)
    => displayLength(textResult.lines[Len(textResult.lines)]) <= textArgs.width

\* C18, as stated: for every maxLines >= 0 the returned lines are the first
\* maxLines wrapped lines, only the last kept one possibly modified, and
\* truncated = (number of wrapped lines > maxLines); with maxLines = 0 lines
\* is empty and truncated tells whether wrapping gave a line; when not
\* truncated the lines are the wrapped lines unchanged.
C18_FirstLinesOriginal ==
    Constrained =>
        /\ textResult.truncated = (Len(WrappedLines) > textArgs.maxLines)
        /\ Len(textResult.lines) = Min(textArgs.maxLines, Len(WrappedLines))
        /\ \A k \in 1..Len(textResult.lines) :
            (k < Len(textResult.lines) \/ ~textResult.truncated)
            => textResult.lines[k] = WrappedLines[k]
        /\ textArgs.maxLines = 0
           => (textResult.lines = <<>> /\ textResult.truncated = (Len(WrappedLines) >= 1))

\* C18, amended: the same, each of these lines being the wrapped line itself
\* when pad is not set and padText(wrapped line, width) when pad is set.
C18_FirstLines ==
    Constrained =>
        /\ textResult.truncated = (Len(WrappedLines) > textArgs.maxLines)
        /\ Len(textResult.lines) = Min(textArgs.maxLines, Len(WrappedLines))
        /\ \A k \in 1..Len(textResult.lines) :
            (k < Len(textResult.lines) \/ ~textResult.truncated)
            => textResult.lines[k] =
                 (IF textArgs.pad THEN padText(WrappedLines[k], textArgs.width)
                  ELSE WrappedLines[k])
        /\ textArgs.maxLines = 0
           => (textResult.lines = <<>> /\ textResult.truncated = (Len(WrappedLines) >= 1))

\* Three wrapped lines cut to two: the first is returned as wrapped and the
\* second, the last kept one, carries the ellipsis.
C18_Witness ==
    /\ Constrained /\ textResult.truncated /\ ~textArgs.pad
    /\ textArgs.maxLines = 2 /\ Len(WrappedLines) = 3
    /\ textResult.lines[1] = WrappedLines[1]
    /\ textResult.lines[2] # WrappedLines[2]

\* The lines wrapAnsi returned, before wrapText drops any of them.
RawLines == Split(wrapAnsi(textArgs.text, textArgs.width), NL)

\* C19: wrapText never returns a list that ends with an empty line: the
\* result is the wrapper's lines, in order, without the empty lines at the
\* end, so that an empty line before a later non-empty line stays in place,
\* and empty input or input that wraps to empty lines only gives the empty
\* list.
C19_NoTrailingBlank ==
    (pc = "done" /\ textArgs.op = "wrapText") =>
        /\ textResult = <<>> \/ textResult[Len(textResult)] # <<>>
        /\ textArgs.text = <<>> => textResult = <<>>
        /\ textArgs.text # <<>> =>
            /\ Len(textResult) <= Len(RawLines)
            /\ \A k \in 1..Len(textResult) : textResult[k] = RawLines[k]
            /\ \A k \in (Len(textResult) + 1)..Len(RawLines) : RawLines[k] = <<>>

\* The wrapper gave a paragraph break and trailing empty lines: the first
\* was kept between two non-empty lines and the others were dropped.
C19_Witness ==
    /\ pc = "done" /\ textArgs.op = "wrapText"
    /\ \A k \in 1..Len(textArgs.text) : textArgs.text[k] \in {"a", NL}
    /\ Len(RawLines) > Len(textResult)
    /\ \E k \in 2..(Len(textResult) - 1) :
        textResult[k] = <<>> /\ textResult[k - 1] # <<>>

====
